---------------------------- MODULE Spec2Model ----------------------------
(***************************************************************************)
(* Living Trust & NGO Management API: the FastAPI router of main.py, the   *)
(* pydantic models of schemas.py, and the persistence collaborator         *)
(* (database.create_document / database.get_documents) the router calls.   *)
(***************************************************************************)
EXTENDS Integers, Sequences, FiniteSets, TLC

(***************************************************************************)
(* JSON / Python values.  A value is a tagged tuple, so that values of     *)
(* different Python types are comparable and never equal.                  *)
(***************************************************************************)
Null == <<"null">>
Num(n) == <<"num", n>>
Str(s) == <<"str", s>>
ObjectId(c, n) == <<"oid", c, n>>

\* str(x) as main.py applies it to "_id": the ObjectId becomes its string form,
\* a value that already is a string stays as it is.
PyStr(v) == IF v[1] = "oid" THEN <<"str", <<v[2], v[3]>> >> ELSE v

(***************************************************************************)
(* Strings of the URL.  A string is its lower-case letters together with   *)
(* the set of positions that are written in upper case; str.lower() clears *)
(* that set.                                                               *)
(***************************************************************************)
Name(base, caps) == [base |-> base, caps |-> caps]
Key(s) == Name(s, {})
\* Mutant: the name is looked up as written.
NoLower(n) == n

Lower(n) == [n EXCEPT !.caps = {}]

(***************************************************************************)
(* schemas.py: the pydantic models.  A field is its name, its type, whether*)
(* it is required (Field(...)) or Optional with default None, and its ge / *)
(* le bounds (a set holding the bound, empty when there is none).          *)
(***************************************************************************)
Fld(n, t, r) == [name |-> n, type |-> t, required |-> r, ge |-> {}, le |-> {}]
FldB(n, t, r, lo, hi) == [name |-> n, type |-> t, required |-> r, ge |-> lo, le |-> hi]

Trust ==
    { Fld("name", "str", TRUE), Fld("purpose", "str", FALSE),
      Fld("inception_date", "date", FALSE), Fld("registration_number", "str", FALSE) }

Beneficiary ==
    { Fld("full_name", "str", TRUE), Fld("email", "str", FALSE),
      Fld("phone", "str", FALSE), Fld("relation", "str", FALSE),
      FldB("allocation_percent", "num", FALSE, {0}, {100}),
      Fld("notes", "str", FALSE) }

Trustee ==
    { Fld("full_name", "str", TRUE), Fld("role", "str", TRUE),
      Fld("email", "str", FALSE), Fld("phone", "str", FALSE) }

Asset ==
    { Fld("title", "str", TRUE), Fld("category", "str", TRUE),
      FldB("value", "num", FALSE, {0}, {}), Fld("owner", "str", FALSE),
      Fld("notes", "str", FALSE) }

Distribution ==
    { Fld("beneficiary_name", "str", TRUE), FldB("amount", "num", TRUE, {0}, {}),
      Fld("schedule", "str", TRUE), Fld("purpose", "str", FALSE) }

NGO ==
    { Fld("name", "str", TRUE), Fld("registration_id", "str", FALSE),
      Fld("email", "str", FALSE), Fld("phone", "str", FALSE),
      Fld("focus_areas", "list", FALSE) }

Donation ==
    { Fld("ngo_name", "str", TRUE), FldB("amount", "num", TRUE, {0}, {}),
      Fld("date_given", "date", FALSE), Fld("source_asset", "str", FALSE),
      Fld("notes", "str", FALSE) }

ComplianceDocument ==
    { Fld("title", "str", TRUE), Fld("doc_type", "str", TRUE),
      Fld("status", "str", TRUE), Fld("due_date", "date", FALSE),
      Fld("link", "str", FALSE) }

\* The example models kept in schemas.py; no table of main.py names them.
User ==
    { Fld("name", "str", TRUE), Fld("email", "str", TRUE), Fld("address", "str", TRUE),
      FldB("age", "int", FALSE, {0}, {120}), Fld("is_active", "bool", FALSE) }

Product ==
    { Fld("title", "str", TRUE), Fld("description", "str", FALSE),
      Fld("price", "num", TRUE), Fld("category", "str", TRUE),
      Fld("in_stock", "bool", FALSE) }

\* A model class: its name and its fields.
Model(title, fields) == [title |-> title, fields |-> fields]

FieldNames(m) == { f.name : f \in m.fields }
RequiredNames(m) == { f.name : f \in { g \in m.fields : g.required } }
FieldOf(m, n) == CHOOSE f \in m.fields : f.name = n

\* Model.model_json_schema(): the machine-readable description of a model.
model_json_schema(m) ==
    [title |-> m.title, properties |-> FieldNames(m), required |-> RequiredNames(m)]

\* One field of Model(**payload): the field's value passes when it has the
\* field's type and lies within ge / le; None passes for an Optional field only.
\* Mutant: the ge / le bounds are not enforced.
FieldOkNoBounds(f, v) ==
    IF v = Null THEN ~f.required ELSE v[1] = f.type

FieldOk(f, v) ==
    IF v = Null THEN ~f.required
    ELSE /\ v[1] = f.type
         /\ (f.type = "num" =>
                /\ \A b \in f.ge : v[2] >= b
                /\ \A b \in f.le : v[2] <= b)

\* Model(**payload) raises (ValidationError) exactly when this is FALSE.
Validates(m, payload) ==
    \A f \in m.fields :
        IF f.name \in DOMAIN payload THEN FieldOk(f, payload[f.name])
        ELSE ~f.required

\* The validated object, as model_dump() gives it: every declared field, an
\* absent Optional one as None; keys the model does not declare are dropped.
Construct(m, payload) ==
    [n \in FieldNames(m) |-> IF n \in DOMAIN payload THEN payload[n] ELSE Null]


(***************************************************************************)
(* main.py: the two tables naming the models.                              *)
(***************************************************************************)
\* Mutant: the example User model is exposed too.
SchemaModelsWithUser ==
    [k \in {"trust", "beneficiary", "trustee", "asset", "distribution", "ngo",
            "donation", "compliancedocument", "user"} |->
        CASE k = "trust" -> Model("Trust", Trust)
          [] k = "beneficiary" -> Model("Beneficiary", Beneficiary)
          [] k = "trustee" -> Model("Trustee", Trustee)
          [] k = "asset" -> Model("Asset", Asset)
          [] k = "distribution" -> Model("Distribution", Distribution)
          [] k = "ngo" -> Model("NGO", NGO)
          [] k = "donation" -> Model("Donation", Donation)
          [] k = "compliancedocument" -> Model("ComplianceDocument", ComplianceDocument)
          [] k = "user" -> Model("User", User)]

\* The dict get_schema() builds.
SchemaModels ==
    [k \in {"trust", "beneficiary", "trustee", "asset", "distribution", "ngo",
            "donation", "compliancedocument"} |->
        CASE k = "trust" -> Model("Trust", Trust)
          [] k = "beneficiary" -> Model("Beneficiary", Beneficiary)
          [] k = "trustee" -> Model("Trustee", Trustee)
          [] k = "asset" -> Model("Asset", Asset)
          [] k = "distribution" -> Model("Distribution", Distribution)
          [] k = "ngo" -> Model("NGO", NGO)
          [] k = "donation" -> Model("Donation", Donation)
          [] k = "compliancedocument" -> Model("ComplianceDocument", ComplianceDocument)]

COLLECTION_MODELS ==
    [k \in {"trust", "beneficiary", "trustee", "asset", "distribution", "ngo",
            "donation", "compliancedocument"} |->
        CASE k = "trust" -> Model("Trust", Trust)
          [] k = "beneficiary" -> Model("Beneficiary", Beneficiary)
          [] k = "trustee" -> Model("Trustee", Trustee)
          [] k = "asset" -> Model("Asset", Asset)
          [] k = "distribution" -> Model("Distribution", Distribution)
          [] k = "ngo" -> Model("NGO", NGO)
          [] k = "donation" -> Model("Donation", Donation)
          [] k = "compliancedocument" -> Model("ComplianceDocument", ComplianceDocument)]

\* "collection not in COLLECTION_MODELS" is FALSE: the keys are lower-case
\* strings, so a string is a key when it has no capital and its letters are a key's.
InCollectionModels(c) == c.caps = {} /\ c.base \in DOMAIN COLLECTION_MODELS

(***************************************************************************)
(* The persistence collaborator.  The store maps each collection to the    *)
(* sequence of its records, in the order fetches return them.              *)
(***************************************************************************)
Take(s, n) == SubSeq(s, 1, IF n < Len(s) THEN n ELSE Len(s))

\* get_documents(collection, filter, limit): up to `limit` records ({} is no
\* limit, {n} is limit n), in the order of the store.
get_documents(st, c, limit) ==
    IF c \notin DOMAIN st THEN <<>>
    ELSE IF limit = {} THEN st[c]
    ELSE Take(st[c], CHOOSE n \in limit : TRUE)

\* The record insert_one stores: the object's fields and the generated "_id".
Stored(obj, id) == [n \in DOMAIN obj \cup {"_id"} |-> IF n = "_id" THEN id ELSE obj[n]]

\* create_document(collection, obj): inserts one record into the named
\* collection and returns its generated identifier.
create_document(st, c, obj) ==
    LET id == ObjectId(c, Len(st[c]) + 1)
    IN  [store |-> [st EXCEPT ![c] = Append(@, Stored(obj, id))], id |-> id]

\* str(e) of the collaborator's exception.
DbError == "Database not available"

(***************************************************************************)
(* Responses.                                                              *)
(***************************************************************************)
HTTPException(status, detail) == [status |-> status, kind |-> "error", body |-> detail]
Ok(kind, body) == [status |-> 200, kind |-> kind, body |-> body]

\* A collaborator call, as the request's log records it.
DbCall(op, c) == [op |-> op, coll |-> c]

\* What a handler did: its response, the store it leaves, its collaborator calls.
Outcome(resp, st, calls) == [resp |-> resp, store |-> st, calls |-> calls]

(***************************************************************************)
(* main.py: the handlers.  `fail` says whether (for get_summary: which of) *)
(* the collaborator call raises.                                           *)
(***************************************************************************)
\* for d in docs: if "_id" in d: d["_id"] = str(d["_id"])
\* Mutant: the identifier is returned as stored.
StrIdNone(d) == d

StrId(d) == IF "_id" \in DOMAIN d THEN [d EXCEPT !["_id"] = PyStr(@)] ELSE d

\* Mutant: the name check sits inside the try block, so its 404 is caught by
\* "except Exception" and reported as 500.
list_documents_caught(st, collection, limit, fail) ==
    LET c == Lower(collection)
    IN  IF ~InCollectionModels(c)
        THEN Outcome(HTTPException(500, "Unknown collection"), st, <<>>)
        ELSE IF fail
        THEN Outcome(HTTPException(500, DbError), st, <<DbCall("get", c.base)>>)
        ELSE LET docs == get_documents(st, c.base, limit)
             IN  Outcome(Ok("items", [i \in 1..Len(docs) |-> StrId(docs[i])]),
                         st, <<DbCall("get", c.base)>>)

\* Mutant: the records converted in place are the store's own.
list_documents_inplace(st, collection, limit, fail) ==
    LET c == Lower(collection)
    IN  IF ~InCollectionModels(c)
        THEN Outcome(HTTPException(404, "Unknown collection"), st, <<>>)
        ELSE IF fail
        THEN Outcome(HTTPException(500, DbError), st, <<DbCall("get", c.base)>>)
        ELSE LET docs == get_documents(st, c.base, limit)
                 items == [i \in 1..Len(docs) |-> StrId(docs[i])]
             IN  Outcome(Ok("items", items),
                         [st EXCEPT ![c.base] = items \o SubSeq(@, Len(docs) + 1, Len(@))],
                         <<DbCall("get", c.base)>>)

list_documents(st, collection, limit, fail) ==
    LET c == Lower(collection)
    IN  IF ~InCollectionModels(c)
        THEN Outcome(HTTPException(404, "Unknown collection"), st, <<>>)
        ELSE IF fail
        THEN Outcome(HTTPException(500, DbError), st, <<DbCall("get", c.base)>>)
        ELSE LET docs == get_documents(st, c.base, limit)
             IN  Outcome(Ok("items", [i \in 1..Len(docs) |-> StrId(docs[i])]),
                         st, <<DbCall("get", c.base)>>)

create_document_endpoint(st, collection, payload, fail) ==
    LET c == Lower(collection)
    IN  IF ~InCollectionModels(c)
        THEN Outcome(HTTPException(404, "Unknown collection"), st, <<>>)
        ELSE IF ~Validates(COLLECTION_MODELS[c.base], payload)
        THEN Outcome(HTTPException(422, "Validation error"), st, <<>>)
        ELSE IF fail
        THEN Outcome(HTTPException(500, DbError), st, <<DbCall("insert", c.base)>>)
        ELSE LET r == create_document(st, c.base, Construct(COLLECTION_MODELS[c.base], payload))
             IN  Outcome(Ok("created", [id |-> r.id, status |-> "created"]),
                         r.store, <<DbCall("insert", c.base)>>)

\* float(d.get(field, 0) or 0)
NumOrZero(d, field) ==
    IF field \notin DOMAIN d THEN 0
    ELSE IF d[field] = Null \/ d[field] = Num(0) THEN 0
    ELSE d[field][2]

\* Mutant: only the first record is counted.
SumFirstOnly(docs, field) ==
    IF docs = <<>> THEN 0 ELSE NumOrZero(Head(docs), field)

RECURSIVE SumField(_, _)
SumField(docs, field) ==
    IF docs = <<>> THEN 0
    ELSE NumOrZero(Head(docs), field) + SumField(Tail(docs), field)

\* The five collections get_summary fetches, in the order it fetches them.
SummaryFetches == <<"trust", "beneficiary", "asset", "ngo", "donation">>

\* The body get_summary returns, from the five fetched lists.
SummaryBody(trusts, beneficiaries, assets, ngos, donations) ==
    [trusts |-> Len(trusts),
     beneficiaries |-> Len(beneficiaries),
     assets |-> Len(assets),
     ngos |-> Len(ngos),
     donations |-> Len(donations),
     total_donation |-> SumField(donations, "amount"),
     total_asset_value |-> SumField(assets, "value")]

\* fail = 0: no call raises; fail = i: the i-th fetch raises.
get_summary(st, fail) ==
    IF fail # 0
    THEN Outcome(HTTPException(500, DbError), st,
                 [i \in 1..fail |-> DbCall("get", SummaryFetches[i])])
    ELSE Outcome(Ok("summary",
                    SummaryBody(get_documents(st, "trust", {}),
                                get_documents(st, "beneficiary", {}),
                                get_documents(st, "asset", {}),
                                get_documents(st, "ngo", {}),
                                get_documents(st, "donation", {}))),
                 st, [i \in 1..5 |-> DbCall("get", SummaryFetches[i])])

get_schema(st) ==
    Outcome(Ok("schema", [k \in DOMAIN SchemaModels |-> model_json_schema(SchemaModels[k])]),
            st, <<>>)

\* test_database: reads the collection names (fail: that read raises, which the
\* handler turns into a status string); never an HTTP error, never a write.
test_database(st, fail) ==
    Outcome(Ok("diagnostic",
               IF fail THEN [database |-> "Connected but Error", collections |-> {}]
               ELSE [database |-> "Connected & Working",
                     collections |-> { c \in DOMAIN st : st[c] # <<>> }]),
            st, <<DbCall("list_collection_names", "")>>)

read_root(st) == Outcome(Ok("message", "Living Trust & NGO Management Backend is running"), st, <<>>)

hello(st) == Outcome(Ok("message", "Hello from the backend API!"), st, <<>>)

(***************************************************************************)
(* main.py: the routes, in the order the decorators register them.  A path *)
(* is the sequence of its segments; "{collection}" matches any one segment.*)
(***************************************************************************)
Route(method, path, handler) == [method |-> method, path |-> path, handler |-> handler]

Routes ==
    << Route("GET", <<>>, "read_root"),
       Route("GET", <<Key("api"), Key("hello")>>, "hello"),
       Route("GET", <<Key("test")>>, "test_database"),
       Route("GET", <<Key("schema")>>, "get_schema"),
       Route("GET", <<Key("api"), Key("{collection}")>>, "list_documents"),
       Route("POST", <<Key("api"), Key("{collection}")>>, "create_document_endpoint"),
       Route("GET", <<Key("api"), Key("summary")>>, "get_summary") >>

PathMatches(pattern, path) ==
    /\ Len(pattern) = Len(path)
    /\ \A i \in 1..Len(path) : pattern[i] = Key("{collection}") \/ pattern[i] = path[i]

\* The router takes the first registered route whose path and method match;
\* a path no route matches is 404, a path matched only under another method 405.
Dispatch(method, path) ==
    LET full == { i \in 1..Len(Routes) :
                    PathMatches(Routes[i].path, path) /\ Routes[i].method = method }
        partial == { i \in 1..Len(Routes) : PathMatches(Routes[i].path, path) }
    IN  IF full # {} THEN Routes[CHOOSE i \in full : \A j \in full : i <= j].handler
        ELSE IF partial # {} THEN "method_not_allowed"
        ELSE "not_found"

\* limit: int | None = 50
DefaultLimit == 50

\* Mutant: a default of 1.
LimitParamOne(query) == IF query = {} THEN {1} ELSE query

\* The limit the handler receives: the query's (a set, empty when the query
\* has no limit parameter), or the default.
LimitParam(query) == IF query = {} THEN {DefaultLimit} ELSE query

\* The response to an HTTP request: the dispatched handler's outcome.
Serve(st, method, path, query, payload, fail) ==
    LET h == Dispatch(method, path)
    IN  CASE h = "read_root" -> read_root(st)
          [] h = "hello" -> hello(st)
          [] h = "test_database" -> test_database(st, fail # 0)
          [] h = "get_schema" -> get_schema(st)
          [] h = "list_documents" -> list_documents(st, path[2], LimitParam(query), fail # 0)
          [] h = "create_document_endpoint" ->
                create_document_endpoint(st, path[2], payload, fail # 0)
          [] h = "get_summary" -> get_summary(st, fail)
          [] h = "method_not_allowed" -> Outcome(HTTPException(405, "Method Not Allowed"), st, <<>>)
          [] OTHER -> Outcome(HTTPException(404, "Not Found"), st, <<>>)

(***************************************************************************)
(* State.                                                                  *)
(***************************************************************************)
VARIABLES
    store,      \* the collaborator's collections: collection -> sequence of records
    req,        \* the request handled last
    resp,       \* its response
    calls,      \* the collaborator calls it made, in order
    created,    \* every successful Create so far: collection, payload, identifier
                \* returned, and the collection's size right after it
    thr         \* concurrent requests: per worker thread, its request, its place
                \* in the handler, the lists it has fetched, its response

vars == <<store, req, resp, calls, created, thr>>

(***************************************************************************)
(* Bounds and inputs.                                                      *)
(***************************************************************************)
MaxCreates == 2     \* successful Creates in one behaviour
MaxLimit == 2       \* explicit limit parameters are 0..MaxLimit
NThreads == 3       \* requests in flight at once

Kinds == DOMAIN COLLECTION_MODELS

\* Collection names of requests: the eight keys, capitalised spellings, and
\* strings that are no key (among them the example models' names and "summary").
Names ==
    { Key(k) : k \in Kinds }
      \cup { Name("trust", {1}), Name("donation", 1..8) }
      \cup { Key("summary"), Key("user"), Name("product", {1}) }

EmptyPayload == [n \in {} |-> Null]

\* A payload holding exactly the required fields of a model, all valid.
Base(m) == [n \in RequiredNames(m) |-> IF FieldOf(m, n).type = "num" THEN Num(7) ELSE Str("x")]

Without(p, n) == [k \in DOMAIN p \ {n} |-> p[k]]
With(p, n, v) == [k \in DOMAIN p \cup {n} |-> IF k = n THEN v ELSE p[k]]

\* The numbers tried for a bounded field: a number within the bounds, each
\* bound, and the number just outside it.
EdgeValues(f) == {7} \cup f.ge \cup f.le \cup { b - 1 : b \in f.ge } \cup { b + 1 : b \in f.le }

\* Payloads sent to a collection of model m: the valid base; each required
\* field missing, null, or of the wrong type; each bounded field at and beyond
\* its bounds; the empty object.
PayloadsOf(m) ==
    {Base(m), EmptyPayload}
      \cup { Without(Base(m), n) : n \in RequiredNames(m) }
      \cup { With(Base(m), n, Null) : n \in RequiredNames(m) }
      \cup { With(Base(m), f.name, IF f.type = "num" THEN Str("x") ELSE Num(7)) :
                f \in { g \in m.fields : g.required } }
      \cup UNION { { With(Base(m), f.name, Num(v)) : v \in EdgeValues(f) } :
                      f \in { g \in m.fields : g.ge \cup g.le # {} } }

\* Payloads sent to a name that is no collection.
OtherPayloads == {EmptyPayload, Base(Model("Trust", Trust)), Base(Model("User", User))}

PayloadsFor(collection) ==
    IF Lower(collection).base \in Kinds
    THEN PayloadsOf(COLLECTION_MODELS[Lower(collection).base])
    ELSE OtherPayloads

Queries == {{}} \cup { {n} : n \in 0..MaxLimit }

HttpQueries == {{}, {MaxLimit}}

\* Paths of HTTP requests.
Paths ==
    { <<>>, <<Key("test")>>, <<Key("schema")>>, <<Key("health")>>,
      <<Key("api"), Key("hello")>>, <<Key("api"), Key("summary")>>,
      <<Key("api"), Key("donation")>>, <<Key("api"), Name("asset", {1})>>,
      <<Key("api"), Key("user")>> }

\* Bodies of HTTP requests: the empty object, and a donation of 100 that has
\* an explicit null for an Optional field and a key the model does not declare.
HttpPayloads ==
    { EmptyPayload,
      With(With(With(Base(Model("Donation", Donation)), "amount", Num(100)),
                "notes", Null), "memo", Str("x")) }

(***************************************************************************)
(* Initial store: records written before this behaviour starts.            *)
(***************************************************************************)
DonationOf(n, amount) ==
    Stored(Construct(Model("Donation", Donation),
                     With(Base(Model("Donation", Donation)), "amount", Num(amount))),
           ObjectId("donation", n))

\* A donation record that has no "amount" key (written by another client of the database).
NoAmountDonation(n) == [ngo_name |-> Str("x"), _id |-> ObjectId("donation", n)]

\* An asset record created without a value: its "value" is None.
NoValueAsset(n) ==
    Stored(Construct(Model("Asset", Asset), Base(Model("Asset", Asset))), ObjectId("asset", n))

InitStore ==
    [k \in Kinds |->
        CASE k = "donation" -> <<DonationOf(1, 100), NoAmountDonation(2), DonationOf(3, 50)>>
          [] k = "asset" -> <<NoValueAsset(1)>>
          [] OTHER -> <<>>]

\* The same store once DefaultLimit trusts (named "t") have been created.
TrustOf(n) ==
    Stored(Construct(Model("Trust", Trust), [name |-> Str("t")]), ObjectId("trust", n))

BulkStore == [InitStore EXCEPT !["trust"] = [i \in 1..DefaultLimit |-> TrustOf(i)]]

NoRequest ==
    [via |-> "none", handler |-> "none", method |-> "", path |-> <<>>,
     collection |-> Key(""), query |-> {}, payload |-> EmptyPayload, fail |-> 0]

Threads == 1..NThreads

IdleThread == [req |-> NoRequest, pc |-> "idle", docs |-> <<>>, resp |-> Ok("none", "")]

Init ==
    /\ store \in {InitStore, BulkStore}
    /\ req = NoRequest
    /\ resp = Ok("none", "")
    /\ calls = <<>>
    /\ created = {}
    /\ thr = [t \in Threads |-> IdleThread]

(***************************************************************************)
(* Actions: one request handled from start to end, then its response sent. *)
(***************************************************************************)
\* The Creates the request adds to `created`.
Created(r, out) ==
    IF out.resp.kind = "created"
    THEN {[coll |-> Lower(r.collection).base, payload |-> r.payload, id |-> out.resp.body.id,
           pos |-> Len(out.store[Lower(r.collection).base])]}
    ELSE {}

Finish(r, out) ==
    /\ store' = out.store
    /\ req' = r
    /\ resp' = out.resp
    /\ calls' = out.calls
    /\ created' = created \cup Created(r, out)
    /\ UNCHANGED thr

Failures(collection) == IF InCollectionModels(Lower(collection)) THEN {0, 1} ELSE {0}

\* List(collection, limit)
ListDocuments ==
    /\ req = NoRequest
    /\ \E collection \in Names, query \in Queries :
        \E fail \in Failures(collection) :
        Finish([NoRequest EXCEPT !.via = "call", !.handler = "list_documents",
                                 !.collection = collection, !.query = query, !.fail = fail],
               list_documents(store, collection, LimitParam(query), fail # 0))

\* Create(collection, payload)
CreateDocument ==
    /\ req = NoRequest
    /\ Cardinality(created) < MaxCreates
    /\ \E collection \in Names :
         \E payload \in PayloadsFor(collection), fail \in Failures(collection) :
           Finish([NoRequest EXCEPT !.via = "call", !.handler = "create_document_endpoint",
                                    !.collection = collection, !.payload = payload,
                                    !.fail = fail],
                  create_document_endpoint(store, collection, payload, fail # 0))

\* Summary()
GetSummary ==
    /\ req = NoRequest
    /\ \E fail \in 0..5 :
        Finish([NoRequest EXCEPT !.via = "call", !.handler = "get_summary", !.fail = fail],
               get_summary(store, fail))

GetSchema ==
    /\ req = NoRequest
    /\ Finish([NoRequest EXCEPT !.via = "call", !.handler = "get_schema"], get_schema(store))

TestDatabase ==
    /\ req = NoRequest
    /\ \E fail \in {0, 1} :
        Finish([NoRequest EXCEPT !.via = "call", !.handler = "test_database", !.fail = fail],
               test_database(store, fail # 0))

\* An HTTP request, dispatched by the router.
Http ==
    /\ req = NoRequest
    /\ \E method \in {"GET", "POST"}, path \in Paths, query \in HttpQueries,
          payload \in HttpPayloads, fail \in {0, 1} :
        /\ Dispatch(method, path) = "create_document_endpoint"
              => Cardinality(created) < MaxCreates
        /\ Finish([via |-> "http", handler |-> Dispatch(method, path), method |-> method,
                   path |-> path,
                   collection |-> IF Len(path) = 2 THEN path[2] ELSE Key(""),
                   query |-> query, payload |-> payload, fail |-> fail],
                  Serve(store, method, path, query, payload, fail))

\* The response is sent and the request's own state is dropped.
Respond ==
    /\ req # NoRequest
    /\ req' = NoRequest
    /\ resp' = Ok("none", "")
    /\ calls' = <<>>
    /\ UNCHANGED <<store, created, thr>>

Next ==
    \/ ListDocuments
    \/ CreateDocument
    \/ GetSummary
    \/ GetSchema
    \/ TestDatabase
    \/ Http
    \/ Respond

Spec == Init /\ [][Next]_vars

(***************************************************************************)
(* Concurrent requests.  Each worker thread runs one handler; the steps of *)
(* a handler that touch only its own locals are taken with the step before *)
(* its next collaborator call, and each collaborator call is one step.     *)
(***************************************************************************)
\* Requests a thread may be given.
ConcRequests ==
    { [NoRequest EXCEPT !.via = "call", !.handler = "create_document_endpoint",
                        !.collection = c, !.payload = p] :
          c \in {Key("donation"), Name("donation", {1})},
          p \in { Base(Model("Donation", Donation)),
                  With(Base(Model("Donation", Donation)), "amount", Num(-1)) } }
      \cup { [NoRequest EXCEPT !.via = "call", !.handler = "create_document_endpoint",
                               !.collection = Key("asset"),
                               !.payload = With(Base(Model("Asset", Asset)), "value", Num(0))],
             [NoRequest EXCEPT !.via = "call", !.handler = "create_document_endpoint",
                               !.collection = Key("user"),
                               !.payload = Base(Model("User", User))],
             [NoRequest EXCEPT !.via = "call", !.handler = "list_documents",
                               !.collection = Key("donation")],
             [NoRequest EXCEPT !.via = "call", !.handler = "list_documents",
                               !.collection = Key("summary")],
             [NoRequest EXCEPT !.via = "call", !.handler = "get_summary"] }

InitConc ==
    /\ store = InitStore
    /\ req = NoRequest
    /\ resp = Ok("none", "")
    /\ calls = <<>>
    /\ created = {}
    /\ thr = [t \in Threads |-> IdleThread]

Done(th, r) == [th EXCEPT !.pc = "done", !.resp = r]

\* The handler up to its first collaborator call: the name lookup and, for
\* Create, the validation.
Enter(r) ==
    LET th == [IdleThread EXCEPT !.req = r]
        c == Lower(r.collection)
    IN  IF r.handler = "get_summary" THEN [th EXCEPT !.pc = "summary"]
        ELSE IF ~InCollectionModels(c)
        THEN Done(th, HTTPException(404, "Unknown collection"))
        ELSE IF r.handler = "list_documents" THEN [th EXCEPT !.pc = "fetch"]
        ELSE IF ~Validates(COLLECTION_MODELS[c.base], r.payload)
        THEN Done(th, HTTPException(422, "Validation error"))
        ELSE [th EXCEPT !.pc = "insert"]

\* Mutant: the insert is issued twice.
InsertCallTwice(st, r) ==
    LET c == Lower(r.collection).base
        obj == Construct(COLLECTION_MODELS[c], r.payload)
    IN  create_document(create_document(st, c, obj).store, c, obj)

\* new_id = create_document(collection, obj)
InsertCall(st, r) ==
    LET c == Lower(r.collection).base
    IN  create_document(st, c, Construct(COLLECTION_MODELS[c], r.payload))

\* A thread takes a request and runs its handler up to the first collaborator call.
Begin(t) ==
    /\ thr[t].pc = "idle"
    /\ \E r \in ConcRequests : thr' = [thr EXCEPT ![t] = Enter(r)]
    /\ UNCHANGED <<store, req, resp, calls, created>>

\* create_document_endpoint: the insert, and the response.
Insert(t) ==
    /\ thr[t].pc = "insert"
    /\ \/ /\ thr' = [thr EXCEPT ![t] = Done(@, HTTPException(500, DbError))]
          /\ store' = store
       \/ LET r == InsertCall(store, thr[t].req)
          IN  /\ store' = r.store
              /\ thr' = [thr EXCEPT ![t] =
                            Done(@, Ok("created", [id |-> r.id, status |-> "created"]))]
    /\ UNCHANGED <<req, resp, calls, created>>

\* list_documents: the fetch, and the response.
Fetch(t) ==
    /\ thr[t].pc = "fetch"
    /\ \/ thr' = [thr EXCEPT ![t] = Done(@, HTTPException(500, DbError))]
       \/ LET docs == get_documents(store, Lower(thr[t].req.collection).base,
                                    LimitParam(thr[t].req.query))
          IN  thr' = [thr EXCEPT ![t] =
                        Done(@, Ok("items", [i \in 1..Len(docs) |-> StrId(docs[i])]))]
    /\ UNCHANGED <<store, req, resp, calls, created>>

\* get_summary: its next fetch; after the fifth, the response.
SummaryFetch(t) ==
    /\ thr[t].pc = "summary"
    /\ \/ thr' = [thr EXCEPT ![t] = Done(@, HTTPException(500, DbError))]
       \/ LET docs == Append(thr[t].docs,
                             get_documents(store, SummaryFetches[Len(thr[t].docs) + 1], {}))
          IN  thr' = [thr EXCEPT ![t] =
                        IF Len(docs) < 5 THEN [@ EXCEPT !.docs = docs]
                        ELSE Done([@ EXCEPT !.docs = docs],
                                  Ok("summary",
                                     SummaryBody(docs[1], docs[2], docs[3], docs[4], docs[5])))]
    /\ UNCHANGED <<store, req, resp, calls, created>>

NextConc ==
    \E t \in Threads :
        \/ Begin(t)
        \/ Insert(t)
        \/ Fetch(t)
        \/ SummaryFetch(t)

SpecConc == InitConc /\ [][NextConc]_vars

(***************************************************************************)
(* Properties.                                                             *)
(***************************************************************************)
\* The eight recognized names, as the specification lists them.
RecognizedNames ==
    {"trust", "beneficiary", "trustee", "asset", "distribution", "ngo", "donation",
     "compliancedocument"}

\* The request names a collection whose lower-cased form is a recognized name.
Recognized(r) == r.collection.base \in RecognizedNames

IsList == req.handler = "list_documents"
IsCreate == req.handler = "create_document_endpoint"
IsSummary == req.handler = "get_summary"

SummaryPath == <<Key("api"), Key("summary")>>

\* C1: a GET request to /api/summary is handled by the Summary operation: when
\* the collaborator does not fail the response is a success carrying the five
\* counts and the two sums; the only error it can produce is 500, never 404.
C1_SummaryRouteServed ==
    (req.via = "http" /\ req.method = "GET" /\ req.path = SummaryPath) =>
        /\ IsSummary
        /\ resp.status \in {200, 500}
        /\ req.fail = 0 =>
              /\ resp.status = 200
              /\ resp.kind = "summary"
              /\ DOMAIN resp.body =
                    {"trusts", "beneficiaries", "assets", "ngos", "donations",
                     "total_donation", "total_asset_value"}

\* C2: name resolution is the same for List and Create and is case-insensitive:
\* a name whose lower-cased form is one of the eight recognized names resolves
\* (the request goes on to validation and persistence, never 404); any other
\* name fails with 404 whatever the payload or limit, with no collaborator call.
C2_NameResolution ==
    (IsList \/ IsCreate) =>
        IF Recognized(req)
        THEN /\ resp.status \in {200, 422, 500}
             /\ (IsList => calls = <<DbCall("get", req.collection.base)>>)
             /\ (IsCreate /\ resp.status # 422 =>
                    calls = <<DbCall("insert", req.collection.base)>>)
        ELSE /\ resp = HTTPException(404, "Unknown collection")
             /\ calls = <<>>

\* C2's case: List and Create of a capitalised spelling of a recognized name resolved.
C2_Witness ==
    /\ IsCreate
    /\ req.collection.caps # {}
    /\ Recognized(req)
    /\ resp.status = 200

\* The payload violates a declared constraint of the kind, as C3 lists them.
NegativeField(k, p, kind, field) ==
    k = kind /\ field \in DOMAIN p /\ p[field][1] = "num" /\ p[field][2] < 0

ViolatesConstraint(k, p) ==
    \/ \E n \in RequiredNames(COLLECTION_MODELS[k]) : n \notin DOMAIN p
    \/ NegativeField(k, p, "asset", "value")
    \/ NegativeField(k, p, "distribution", "amount")
    \/ NegativeField(k, p, "donation", "amount")
    \/ /\ k = "beneficiary"
       /\ "allocation_percent" \in DOMAIN p
       /\ p["allocation_percent"][1] = "num"
       /\ (p["allocation_percent"][2] < 0 \/ p["allocation_percent"][2] > 100)

\* C3: Create on a recognized collection with a payload that violates a declared
\* constraint of its kind fails with 422, makes no collaborator call, and leaves
\* every collection as it was.
C3_InvalidCreateRejected ==
    [][ ( /\ req = NoRequest
          /\ req'.handler = "create_document_endpoint"
          /\ Recognized(req')
          /\ ViolatesConstraint(req'.collection.base, req'.payload) )
        => ( /\ resp'.status = 422
             /\ calls' = <<>>
             /\ store' = store ) ]_vars

\* C3's case: an asset with a negative value was refused.
C3_Witness ==
    /\ IsCreate
    /\ NegativeField(req.collection.base, req.payload, "asset", "value")
    /\ resp.status = 422

\* A listed record carries the field values of a Create.
Carries(item, cr) ==
    \A n \in DOMAIN cr.payload \cap FieldNames(COLLECTION_MODELS[cr.coll]) :
        n \in DOMAIN item /\ item[n] = cr.payload[n]

Listed(cr) == \E i \in 1..Len(resp.body) : Carries(resp.body[i], cr)

\* Create of a valid payload on a recognized collection succeeds with a non-empty
\* identifier when the collaborator does not fail.
ValidCreateSucceeds ==
    ( /\ IsCreate
      /\ Recognized(req)
      /\ Validates(COLLECTION_MODELS[req.collection.base], req.payload)
      /\ req.fail = 0 )
    => ( /\ resp.status = 200
         /\ resp.kind = "created"
         /\ resp.body.id # Null
         /\ resp.body.id[1] = "oid" )

DefaultList == IsList /\ resp.status = 200 /\ req.query = {}

\* C4 as stated: a valid Create succeeds with a non-empty identifier, and every
\* later List of that collection with the default limit includes a record
\* carrying the created field values.
C4_CreatedAlwaysListed ==
    /\ ValidCreateSucceeds
    /\ DefaultList =>
          \A cr \in created : cr.coll = req.collection.base => Listed(cr)

\* C4 amended: a valid Create succeeds with a non-empty identifier, and every
\* later List of that collection with the default limit includes a record
\* carrying the created field values, provided the collection held fewer than
\* DefaultLimit records when the Create was made.
C4_CreatedListedWithinLimit ==
    /\ ValidCreateSucceeds
    /\ DefaultList =>
          \A cr \in created :
              (cr.coll = req.collection.base /\ cr.pos <= DefaultLimit) => Listed(cr)

\* C4's case: a record created two Creates ago is in the default List.
C4_Witness ==
    /\ DefaultList
    /\ Cardinality(created) = 2
    /\ \A cr \in created : cr.coll = req.collection.base /\ Listed(cr)
    /\ \E cr \in created : cr.pos < Len(store[cr.coll])

Min(a, b) == IF a < b THEN a ELSE b

\* The limit of the request: the query's, or 50.
LimitOf(r) == IF r.query = {} THEN 50 ELSE CHOOSE n \in r.query : TRUE

\* C5: List on a recognized collection holding n records returns exactly
\* min(limit, n) records (limit 50 when omitted): the first records of the
\* collaborator's sequence, in its order, each changed only in its "_id", which
\* becomes its string form.
C5_ListIsPrefix ==
    (IsList /\ resp.status = 200) =>
        LET docs == store[req.collection.base]
            items == resp.body
        IN  /\ Len(items) = Min(LimitOf(req), Len(docs))
            /\ \A i \in 1..Len(items) :
                  /\ DOMAIN items[i] = DOMAIN docs[i]
                  /\ \A n \in DOMAIN docs[i] \ {"_id"} : items[i][n] = docs[i][n]
                  /\ items[i]["_id"] = <<"str", <<docs[i]["_id"][2], docs[i]["_id"][3]>> >>

\* C5's case: a List cut by its limit, returning at least two records.
C5_Witness ==
    /\ IsList
    /\ resp.status = 200
    /\ Len(resp.body) >= 2
    /\ Len(resp.body) < Len(store[req.collection.base])

\* What a record contributes to a sum: its field, 0 when missing or null.
Contribution(d, field) ==
    IF field \in DOMAIN d /\ d[field] # Null THEN d[field][2] ELSE 0

RECURSIVE SumUpTo(_, _, _)
SumUpTo(docs, field, n) ==
    IF n = 0 THEN 0 ELSE SumUpTo(docs, field, n - 1) + Contribution(docs[n], field)

\* C6: Summary's total_donation is the sum of "amount" over the stored donations
\* and total_asset_value the sum of "value" over the stored assets, a missing or
\* null field contributing 0; such a record never makes Summary fail.
C6_SummarySums ==
    IsSummary =>
        /\ req.fail = 0 => resp.status = 200
        /\ resp.status = 200 =>
              /\ resp.body.total_donation =
                    SumUpTo(store["donation"], "amount", Len(store["donation"]))
              /\ resp.body.total_asset_value =
                    SumUpTo(store["asset"], "value", Len(store["asset"]))

\* C6's case: a Summary over donations one of which has no amount, and assets
\* one of which has a null value and another a value.
C6_Witness ==
    /\ IsSummary
    /\ resp.status = 200
    /\ \E i \in 1..Len(store["donation"]) : "amount" \notin DOMAIN store["donation"][i]
    /\ \E i \in 1..Len(store["asset"]) : store["asset"][i]["value"] = Null
    /\ resp.body.total_donation > 150
    /\ resp.body.total_asset_value > 0

C8_RecordsNeverChange ==
    [][ /\ \A c \in DOMAIN store :
              /\ Len(store'[c]) >= Len(store[c])
              /\ SubSeq(store'[c], 1, Len(store[c])) = store[c]
        /\ req'.handler # "create_document_endpoint" => store' = store ]_vars

\* C8's case: after a Create, a List that returned records.
C8_Witness ==
    /\ created # {}
    /\ IsList
    /\ resp.status = 200
    /\ resp.body # <<>>

\* C9: GET /schema returns a mapping whose keys are exactly the eight recognized
\* names, the names List and Create resolve, each mapped to the description of
\* that kind's own model.
C9_SchemaKeys ==
    req.handler = "get_schema" =>
        /\ resp.status = 200
        /\ DOMAIN resp.body = RecognizedNames
        /\ DOMAIN resp.body = { k \in DOMAIN resp.body \cup {"user", "product"} :
                                  InCollectionModels(Lower(Key(k))) }
        /\ \A k \in DOMAIN resp.body :
              resp.body[k] = model_json_schema(COLLECTION_MODELS[k])

\* C9's case: GET /schema was served.
C9_Witness ==
    /\ req.via = "http"
    /\ req.path = <<Key("schema")>>
    /\ req.handler = "get_schema"
    /\ resp.kind = "schema"

AllDone == \A t \in Threads : thr[t].pc = "done"

CreatedBy(t) ==
    /\ thr[t].req.handler = "create_document_endpoint"
    /\ thr[t].pc = "done"
    /\ thr[t].resp.status = 200

\* The places of the store that hold the identifier.
PlacesOf(id) ==
    UNION { { <<c, i>> : i \in { j \in 1..Len(store[c]) : store[c][j]["_id"] = id } } :
                c \in DOMAIN store }

\* The orders in which the threads' requests can be run one after another.
Orders == { p \in [1..NThreads -> Threads] : \A i, j \in 1..NThreads : p[i] = p[j] => i = j }

\* The store after the requests of threads p[i], p[i+1], ... are handled one at
\* a time from store st, each Create meeting the collaborator outcome it met.
RECURSIVE RunInOrder(_, _, _)
RunInOrder(st, p, i) ==
    IF i > NThreads THEN st
    ELSE LET th == thr[p[i]]
         IN  RunInOrder(
                 IF th.req.handler = "create_document_endpoint"
                 THEN create_document_endpoint(st, th.req.collection, th.req.payload,
                                               th.resp.status = 500).store
                 ELSE st,
                 p, i + 1)

\* C10: under any interleaving of concurrent Create, List and Summary requests,
\* each successful Create has added exactly one record, to the collection it
\* named and no other, each failed Create none, no record is lost or duplicated,
\* and the final store is that of running the same Creates in some order one
\* after another.
C10_CreatesIndependent ==
    /\ \A t \in Threads :
          CreatedBy(t) =>
              \E i \in 1..Len(store[Lower(thr[t].req.collection).base]) :
                  PlacesOf(thr[t].resp.body.id) = {<<Lower(thr[t].req.collection).base, i>>}
    /\ \A c \in DOMAIN store :
          Len(store[c]) = Len(InitStore[c])
              + Cardinality({ t \in Threads :
                                CreatedBy(t) /\ Lower(thr[t].req.collection).base = c })
    /\ AllDone => \E p \in Orders : RunInOrder(InitStore, p, 1) = store

\* C10's case: two Creates on one collection, one of them under a capitalised
\* name, both inserted while a Summary was between its fetches.
C10_Witness ==
    /\ AllDone
    /\ \E t, u \in Threads :
          /\ t # u
          /\ CreatedBy(t) /\ CreatedBy(u)
          /\ thr[t].req.collection = Key("donation")
          /\ thr[u].req.collection = Name("donation", {1})
    /\ \E t \in Threads :
          /\ thr[t].req.handler = "get_summary"
          /\ thr[t].resp.status = 200
          /\ thr[t].resp.body.donations = Len(InitStore["donation"]) + 1

=============================================================================
